---- MODULE Spec2Model ----
(***************************************************************************)
(* Model of the FFT library of src/src/libraries: the Iterative, the       *)
(* Recursive and the Parallel (MPI + OpenMP) engine behind the Fourier<T>  *)
(* interface, with T = std::complex<double>.                               *)
(*                                                                         *)
(* Complex samples are modelled exactly.  A value is a rational linear     *)
(* combination of the roots of unity exp(2*pi*i*e/Turn), 0 <= e < Turn/2,  *)
(* reduced with exp(i*pi) = -1.  Every twiddle factor the engines build    *)
(* (std::polar(1.0, angle), cos/sin of +-2*pi/len) is such a root, so the  *)
(* sums, differences, products and divisions by N of the code are computed *)
(* without rounding.  For the power-of-two lengths this representation is  *)
(* faithful (two values are equal here iff they are equal as complex       *)
(* numbers); floating-point rounding is not modelled.                      *)
(***************************************************************************)
EXTENDS Integers, Sequences, FiniteSets, TLC

\* Largest log2 of a signal length, largest number of MPI ranks, and largest
\* number of transform calls made on one engine.
MaxLogN == 2
MaxP == 4
MaxCalls == 2
MaxArgc == 4
MaxCode == 5
MaxBits == 6
MaxLogLen == 3

RECURSIVE Pow2(_)
Pow2(k) == IF k = 0 THEN 1 ELSE 2 * Pow2(k - 1)

MaxN == Pow2(MaxLogN)

\* The widest stage butterfly_stage is evaluated for on its own.
MaxLen == Pow2(MaxLogLen)

Abs(x) == IF x < 0 THEN -x ELSE x

RECURSIVE Gcd(_, _)
Gcd(a, b) == IF b = 0 THEN a ELSE Gcd(b, a % b)

RECURSIVE LcmUpTo(_)
LcmUpTo(n) == IF n <= 1 THEN 1
              ELSE LET m == LcmUpTo(n - 1) IN (m * n) \div Gcd(m, n)

\* Angles are counted in units of 2*pi/Turn; Turn is a multiple of every
\* length up to MaxN and up to MaxLen (and of 4), so 2*pi/len is a whole
\* number of units.
Turn == LcmUpTo(IF MaxN < MaxLen THEN (IF MaxLen < 4 THEN 4 ELSE MaxLen) ELSE MaxN)
HalfTurn == Turn \div 2

----------------------------------------------------------------------------
(* std::complex<double> arithmetic, exact.                                 *)

RECURSIVE GcdAll(_)
GcdAll(S) == IF S = {} THEN 0
             ELSE LET x == CHOOSE y \in S : TRUE IN Gcd(x, GcdAll(S \ {x}))

\* The value (sum of f[e] * exp(2*pi*i*e/Turn)) / d in lowest terms.
Cplx(f, d) ==
    LET S == {e \in DOMAIN f : f[e] # 0}
        g == GcdAll({Abs(f[e]) : e \in S} \cup {d})
    IN  [n |-> [e \in S |-> f[e] \div g], d |-> d \div g]

Coef(f, e) == IF e \in DOMAIN f THEN f[e] ELSE 0

Zero == Cplx([e \in {0} |-> 0], 1)
One == Cplx([e \in {0} |-> 1], 1)

\* std::polar(1.0, angle) and (cos(angle), sin(angle)), angle = k units.
Polar(k) ==
    LET m == k % Turn
    IN  IF m < HalfTurn THEN Cplx([e \in {m} |-> 1], 1)
        ELSE Cplx([e \in {m - HalfTurn} |-> -1], 1)

ImagUnit == Polar(Turn \div 4)

CAdd(a, b) ==
    LET D == (DOMAIN a.n) \cup (DOMAIN b.n)
    IN  Cplx([e \in D |-> Coef(a.n, e) * b.d + Coef(b.n, e) * a.d], a.d * b.d)

CSub(a, b) ==
    LET D == (DOMAIN a.n) \cup (DOMAIN b.n)
    IN  Cplx([e \in D |-> Coef(a.n, e) * b.d - Coef(b.n, e) * a.d], a.d * b.d)

RECURSIVE SumFn(_, _)
SumFn(g, S) == IF S = {} THEN 0
               ELSE LET x == CHOOSE y \in S : TRUE IN g[x] + SumFn(g, S \ {x})

CMul(a, b) ==
    LET pairs == (DOMAIN a.n) \X (DOMAIN b.n)
        term == [p \in pairs |->
                   (IF p[1] + p[2] >= HalfTurn THEN -1 ELSE 1) * a.n[p[1]] * b.n[p[2]]]
        T == {(p[1] + p[2]) % HalfTurn : p \in pairs}
    IN  Cplx([t \in T |-> SumFn(term, {p \in pairs : (p[1] + p[2]) % HalfTurn = t})],
             a.d * b.d)

\* operator/=(double) with a whole divisor n > 0.
CDivInt(a, n) == Cplx(a.n, a.d * n)

----------------------------------------------------------------------------
(* Helpers on std::vector<T>; the code's index i is position i + 1 here.   *)

At(v, i) == v[i + 1]

Vec(n, F(_)) == [k \in 1..n |-> F(k - 1)]

IsPow2(n) == \E k \in 0..(MaxLogN + 1) : n = Pow2(k)

\* a null pointer is the empty tuple, a pointer to v the one-element tuple.
NULL == <<>>
Ptr(v) == <<v>>
Deref(p) == p[1]

----------------------------------------------------------------------------
(* Fourier<T>::read: the samples of the file, zero-padded to the next      *)
(* power of two when their number is neither 0 nor a power of two.         *)

RECURSIVE NextPow2(_, _)
NextPow2(next_pow2, n) == IF next_pow2 < n THEN NextPow2(2 * next_pow2, n) ELSE next_pow2

\* std::vector::resize(n, T(0)): the first n elements, zero-filled.
Resize(v, n) == Vec(n, LAMBDA i : IF i < Len(v) THEN At(v, i) ELSE Zero)

Read(samples) ==
    LET n == Len(samples)
    IN  IF n > 0 /\ ~IsPow2(n) THEN Resize(samples, NextPow2(1, n)) ELSE samples

----------------------------------------------------------------------------
(* Iterative engine (Iterative.hpp).                                       *)

\* while ((size_t(1) << log_n) < n) log_n++;
RECURSIVE Log2Ceil(_, _)
Log2Ceil(log_n, n) == IF Pow2(log_n) < n THEN Log2Ceil(log_n + 1, n) ELSE log_n

BitSet(i, bit) == (i \div Pow2(bit)) % 2 = 1

\* j |= 1 << (log_n - 1 - bit) for every set bit of i.
RECURSIVE IterativeBitReverse(_, _, _)
IterativeBitReverse(i, log_n, bit) ==
    IF bit >= log_n THEN 0
    ELSE (IF BitSet(i, bit) THEN Pow2(log_n - 1 - bit) ELSE 0)
         + IterativeBitReverse(i, log_n, bit + 1)

\* for i in 0..n-1: dst[rev(i)] = src[i], the writes taken in loop order: a
\* slot keeps the sample of the last i that maps to it, or its old content.
Permute(dst, src, n, rev(_)) ==
    Vec(n, LAMBDA j :
        LET from == {i \in 0..(n - 1) : rev(i) = j}
        IN  IF from = {} THEN At(dst, j)
            ELSE At(src, CHOOSE i \in from : \A k \in from : k <= i))

\* w after j executions of "w *= wlen", starting from w = (1.0, 0.0).
RECURSIVE Twiddle(_, _)
Twiddle(wlen, j) == IF j = 0 THEN One ELSE CMul(Twiddle(wlen, j - 1), wlen)

\* angle = +-2*pi/len in units of 2*pi/Turn.
\* Variant: the forward direction turns the positive way.
AngleFlipped(len, inverse) == (IF inverse THEN -1 ELSE 1) * (Turn \div len)

Angle(len, inverse) == (IF inverse THEN 1 ELSE -1) * (Turn \div len)

\* One pass "for i (blocks of len) for j < len/2" over data[0..n-1]: the pair
\* (i+j, i+j+len/2) becomes (u + v, u - v) with v = data[i+j+len/2] * w^j.
IterativeStage(data, n, len, inverse) ==
    LET wlen == Polar(Angle(len, inverse))
        half == len \div 2
    IN  Vec(n, LAMBDA p :
            LET j == p % len
            IN  IF j < half
                THEN CAdd(At(data, p), CMul(At(data, p + half), Twiddle(wlen, j)))
                ELSE CSub(At(data, p - half), CMul(At(data, p), Twiddle(wlen, j - half))))

\* for (len = 2; len <= n; len <<= 1)
RECURSIVE IterativeButterflies(_, _, _, _)
IterativeButterflies(data, n, len, inverse) ==
    IF len > n THEN data
    ELSE IterativeButterflies(IterativeStage(data, n, len, inverse), n, 2 * len, inverse)

\* "Allocate output if not already allocated", else resize it to n.
IterativeAllocate(out, n) ==
    IF out = NULL THEN Vec(n, LAMBDA i : Zero) ELSE Resize(Deref(out), n)

\* Variant: the permutation reads the previous output when there is one of
\* the same length (a transform done in place on the output buffer).
IterativePermutedInPlace(in, out) ==
    LET n == Len(in)
        log_n == Log2Ceil(0, n)
        from == IF out # NULL /\ Len(Deref(out)) = n THEN Deref(out) ELSE in
    IN  Permute(IterativeAllocate(out, n), from, n,
                LAMBDA i : IterativeBitReverse(i, log_n, 0))

IterativePermuted(in, out) ==
    LET n == Len(in)
        log_n == Log2Ceil(0, n)
    IN  Permute(IterativeAllocate(out, n), in, n,
                LAMBDA i : IterativeBitReverse(i, log_n, 0))

\* Iterative::compute on input in with output pointer out: the new output
\* pointer and how the call ended.
IterativeCompute(in, out) ==
    LET n == Len(in)
    IN  IF n = 0 THEN [output |-> out, status |-> "ok"]
        ELSE IF ~IsPow2(n) THEN [output |-> out, status |-> "invalid_argument"]
        ELSE [output |-> Ptr(IterativeButterflies(IterativePermuted(in, out), n, 2, FALSE)),
              status |-> "ok"]

\* Iterative::reverseCompute: positive angles, then every sample /= n.
IterativeReverseCompute(in, out) ==
    LET n == Len(in)
    IN  IF n = 0 THEN [output |-> out, status |-> "ok"]
        ELSE IF ~IsPow2(n) THEN [output |-> out, status |-> "invalid_argument"]
        ELSE LET y == IterativeButterflies(IterativePermuted(in, out), n, 2, TRUE)
             IN  [output |-> Ptr(Vec(n, LAMBDA i : CDivInt(At(y, i), n))),
                  status |-> "ok"]

----------------------------------------------------------------------------
(* Recursive engine (Recursive.hpp).                                       *)

\* Recursive::recursive for a vector of N >= 1 samples (for N = 0 the code
\* never reaches its base case N == 1: see RecursiveCompute).
RECURSIVE recursive(_, _)
recursive(x, inverse) ==
    LET N == Len(x)
    IN  IF N = 1 THEN x
        ELSE
        LET w == Polar(Angle(N, inverse))
            evenX == [k \in 1..((N + 1) \div 2) |-> x[2 * k - 1]]
            oddX == [k \in 1..(N \div 2) |-> x[2 * k]]
            evenY == recursive(evenX, inverse)
            oddY == recursive(oddX, inverse)
            half == N \div 2
        IN  Vec(N, LAMBDA p :
                IF p < half
                THEN CAdd(At(evenY, p), CMul(Twiddle(w, p), At(oddY, p)))
                ELSE IF p < 2 * half
                THEN CSub(At(evenY, p - half), CMul(Twiddle(w, p - half), At(oddY, p - half)))
                ELSE Zero)

\* Recursive::compute: on an empty input recursive() calls itself on two
\* empty halves without end, and the call dies of stack exhaustion.
RecursiveCompute(in, out) ==
    IF Len(in) = 0 THEN [output |-> out, status |-> "stack_overflow"]
    ELSE [output |-> Ptr(recursive(in, FALSE)), status |-> "ok"]

\* Recursive::reverseCompute: recursive() with inverse set, then it /= N.
RecursiveReverseCompute(in, out) ==
    IF Len(in) = 0 THEN [output |-> out, status |-> "stack_overflow"]
    ELSE LET Y == recursive(in, TRUE)
             N == Len(Y)
         IN  [output |-> Ptr(Vec(N, LAMBDA i : CDivInt(At(Y, i), N))), status |-> "ok"]

----------------------------------------------------------------------------
(* Parallel engine (Parallel.hpp): pure parts of executeFFT.               *)

\* local_n / len >= ButterflyThreshold selects the recurrence branch.
ButterflyThreshold == 32

RECURSIVE BitAnd(_, _)
BitAnd(a, b) == IF a = 0 \/ b = 0 THEN 0
                ELSE (a % 2) * (b % 2) + 2 * BitAnd(a \div 2, b \div 2)

RECURSIVE BitXor(_, _)
BitXor(a, b) == IF a = 0 THEN b
                ELSE IF b = 0 THEN a
                ELSE ((a + b) % 2) + 2 * BitXor(a \div 2, b \div 2)

\* Variant: the index is left as it is.
ParallelBitReverseNot(j, temp_i, log_n, bit) == temp_i

\* j = (j << 1) | (temp_i & 1); temp_i >>= 1;  log_n times.
RECURSIVE ParallelBitReverse(_, _, _, _)
ParallelBitReverse(j, temp_i, log_n, bit) ==
    IF bit >= log_n THEN j
    ELSE ParallelBitReverse(2 * j + (temp_i % 2), temp_i \div 2, log_n, bit + 1)

\* rank 0: permuted_input[j] = input[i] with j the bit reversal of i.
ParallelPermuted(in, global_n) ==
    LET log_n == Log2Ceil(0, global_n)
    IN  Permute(Vec(global_n, LAMBDA i : Zero), in, global_n,
                LAMBDA i : ParallelBitReverse(0, i, log_n, 0))

\* Does the permutation loop write outside permuted_input[0..global_n-1]?
PermuteOutOfRange(global_n) ==
    LET log_n == Log2Ceil(0, global_n)
    IN  \E i \in 0..(global_n - 1) : ParallelBitReverse(0, i, log_n, 0) >= global_n

\* Variant: w is advanced before the pair uses it.
ButterflyTwiddleAhead(local_n, len, inverse, j) == Polar(Angle(len, inverse) * (j + 1))

\* The w of pair j in butterfly_stage: by recurrence in the first branch,
\* std::polar(1.0, angle * j) in the collapse(2) branch.
ButterflyTwiddle(local_n, len, inverse, j) ==
    IF local_n \div len >= ButterflyThreshold
    THEN Twiddle(Polar(Angle(len, inverse)), j)
    ELSE Polar(Angle(len, inverse) * j)

\* Parallel::butterfly_stage(data, local_n, len, inverse), len <= local_n.
butterfly_stage(data, local_n, len, inverse) ==
    LET half == len \div 2
    IN  Vec(local_n, LAMBDA p :
            LET j == p % len
            IN  IF j < half
                THEN CAdd(At(data, p),
                          CMul(At(data, p + half), ButterflyTwiddle(local_n, len, inverse, j)))
                ELSE CSub(At(data, p - half),
                          CMul(At(data, p), ButterflyTwiddle(local_n, len, inverse, j - half))))

\* Variant: the second element of a pair lies a whole width further on.
PairAccessWide(i, j, len) == {i + j, i + j + len}

\* The elements of data the body of the inner loop reads and writes for
\* block i and offset j: data[i + j] and data[i + j + len / 2].  w, u and v
\* are declared inside the loops; angle and wlen are only read.
PairAccess(i, j, len) == {i + j, i + j + len \div 2}

\* for (i = 0; i < local_n; i += len)
Blocks(local_n, len) == {i \in 0..(local_n - 1) : i % len = 0}

\* The iterations the threads share in butterfly_stage: the blocks i in the
\* first branch (parallel for), the pairs (i, j) in the second (collapse(2)).
Iterations(local_n, len) ==
    IF local_n \div len >= ButterflyThreshold
    THEN {<<i>> : i \in Blocks(local_n, len)}
    ELSE Blocks(local_n, len) \X (0..(len \div 2 - 1))

\* The elements of data one such iteration reads and writes: a block runs
\* the inner loop over all its offsets.
IterationAccess(it, len) ==
    IF Len(it) = 1
    THEN UNION {PairAccess(it[1], j, len) : j \in 0..(len \div 2 - 1)}
    ELSE PairAccess(it[1], it[2], len)

\* The combine loop: iteration i reads local_data[i] and buffer[i] and writes
\* local_data[i]; buffer is written by no iteration.
CombineIterations(local_n) == 0..(local_n - 1)

CombineAccess(i) == {i}

\* Variant: the whole width, not half of it, over local_n.
GroupSizeWhole(len, local_n) == len \div local_n

\* group_size = (len / 2) / local_n, for local_n > 0.
GroupSize(len, local_n) == (len \div 2) \div local_n

\* Variants: the partner one bit too high; the partner as the next rank of a
\* ring of 4 * group_size ranks.
PartnerHigh(rank, group_size) == BitXor(rank, 2 * group_size)

PartnerRing(rank, group_size) == (rank + group_size) % (4 * group_size)

\* partner = rank ^ group_size.
Partner(rank, group_size) == BitXor(rank, group_size)

\* Variant: the roles swapped.
IsLowerFlipped(rank, group_size) == BitAnd(rank, group_size) # 0

\* is_lower = (rank & group_size) == 0.
IsLower(rank, group_size) == BitAnd(rank, group_size) = 0

\* Variant: the offset taken from the rank, not from its place in the group.
StartJNoMod(rank, group_size, local_n) == rank * local_n

\* start_j = (rank % group_size) * local_n.
StartJ(rank, group_size, local_n) == (rank % group_size) * local_n

\* The combine loop of the cross-process case: local_data after it, with
\* buffer the partition received from the partner.
CrossCombine(local_data, buffer, rank, local_n, len, inverse) ==
    LET group_size == GroupSize(len, local_n)
        start_j == StartJ(rank, group_size, local_n)
    IN  Vec(local_n, LAMBDA i :
            LET w == Polar(Angle(len, inverse) * (start_j + i))
            IN  IF IsLower(rank, group_size)
                THEN CAdd(At(local_data, i), CMul(At(buffer, i), w))
                ELSE CSub(At(buffer, i), CMul(At(local_data, i), w)))

\* The chunk MPI_Scatter / MPI_Gather moves for rank r: local_n elements
\* from offset r * local_n.
Chunk(v, r, local_n) == Vec(local_n, LAMBDA i : At(v, r * local_n + i))

\* "Prepare Output" on rank 0: a new vector of global_n, or resize().
ParallelAllocate(out, global_n) ==
    IF out = NULL THEN Vec(global_n, LAMBDA i : Zero) ELSE Resize(Deref(out), global_n)

\* MPI_Gather into output->data() on rank 0: chunk r lands at r * local_n;
\* what lies behind size * local_n keeps its content.
Gathered(out, chunks, P, local_n) ==
    Vec(Len(out), LAMBDA i :
        IF local_n > 0 /\ i < P * local_n
        THEN At(chunks[i \div local_n], i % local_n)
        ELSE At(out, i))

\* Normalization on rank 0 (inverse only): output[i] /= global_n.
\* Variant: no division by N.
NormalizedNot(out, global_n, inverse) == out

Normalized(out, global_n, inverse) ==
    IF inverse THEN Vec(Len(out), LAMBDA i : CDivInt(At(out, i), global_n)) ELSE out

----------------------------------------------------------------------------
(* Signals the input file may hold: the unit impulses and the constant     *)
(* signals 0, 1 and i of every length up to MaxN.  The engines are linear  *)
(* in their input, so the impulses span all inputs.                        *)

Impulse(n, k, c) == Vec(n, LAMBDA i : IF i = k THEN c ELSE Zero)

Constant(n, c) == Vec(n, LAMBDA i : c)

Signals(n) ==
    {Constant(n, c) : c \in {Zero, One, ImagUnit}}
    \cup {Impulse(n, k, One) : k \in 0..(n - 1)}

Files == UNION {Signals(n) : n \in 0..MaxN}

----------------------------------------------------------------------------
(* State.                                                                  *)

VARIABLES
    cmd,        \* main: argc, argv[1] (whether numeric, and its value), the
                \* local int method, and how far main has come
    method,     \* the engine in use: 1 Iterative, 2 Recursive, 3 Parallel
    size,       \* MPI_Comm_size of the communicator
    input,      \* Fourier::input of the engine (of rank 0 for Parallel)
    output,     \* Fourier::output of the engine (of rank 0 for Parallel)
    inverse,    \* Recursive::inverse
    last,       \* the last operation on the engine, how it ended, and (for a
                \* transform call) the operation that came right before it
    origin,     \* what the input was reloaded from, when it was reloaded
    prog,       \* the directions of the transform calls made so far
    proc,       \* per rank: where it is in executeFFT, and its locals
    bcast,      \* per rank: MPI_Bcast payloads sent to it and not yet received
    scatter,    \* per rank: MPI_Scatter chunks sent to it and not yet received
    p2p,        \* per (source, destination): MPI_Sendrecv messages in flight
    gather      \* per rank: MPI_Gather chunks it sent, not yet collected

vars == <<cmd, method, size, input, output, inverse, last, origin, prog,
          proc, bcast, scatter, p2p, gather>>

engine == <<input, output, inverse, last, origin>>
network == <<bcast, scatter, p2p, gather>>

Ranks == 0..(size - 1)

\* A rank outside executeFFT.  calls counts the calls it has made; snap keeps
\* local_data as it was after the scatter (at 1) and after each stage (at
\* len) of its latest call; xchg lists the MPI_Sendrecv calls of its latest
\* call, each with the stage width and the partner; recv keeps, at len, the
\* message MPI_Sendrecv delivered into buffer in the stage of width len.
Idle == [pc |-> "idle", inverse |-> FALSE, global_n |-> 0, local_n |-> 0, len |-> 0,
         local_data |-> <<>>, calls |-> 0, snap |-> <<>>, xchg |-> <<>>,
         recv |-> <<>>]

Init ==
    /\ method \in 1..3
    /\ cmd = [argc |-> 3, numeric |-> TRUE, code |-> method, method |-> method,
              pc |-> "run"]
    /\ size \in 1..MaxP
    /\ method # 3 => size = 1
    /\ input = NULL
    /\ output = NULL
    /\ inverse = FALSE
    /\ last = [op |-> "none", status |-> "ok", prev |-> "none"]
    /\ origin = NULL
    /\ prog = <<>>
    /\ proc = [r \in Ranks |-> Idle]
    /\ bcast = [r \in Ranks |-> <<>>]
    /\ scatter = [r \in Ranks |-> <<>>]
    /\ p2p = [c \in Ranks \X Ranks |-> <<>>]
    /\ gather = [r \in Ranks |-> <<>>]

\* The engine object can be used: no call is running on it and the process
\* that owns it is still alive.
Usable ==
    /\ last.status \in {"ok", "invalid_argument"}
    /\ method = 3 => proc[0].pc = "idle"

----------------------------------------------------------------------------
(* Loading the input.                                                      *)

\* Fourier::read(filename) of a file holding the samples f.
ReadFile(f) ==
    /\ Usable
    /\ input' = Ptr(Read(f))
    /\ last' = [op |-> "read", status |-> "ok", prev |-> "none"]
    /\ origin' = NULL
    /\ UNCHANGED <<cmd, method, size, output, inverse, prog, proc, network>>

\* The input member set to an unpadded vector x (the member is protected and
\* Iterative/Recursive read whatever it points to).
SetInput(x) ==
    /\ Usable
    /\ method \in {1, 2}
    /\ input' = Ptr(x)
    /\ last' = [op |-> "set", status |-> "ok", prev |-> "none"]
    /\ origin' = NULL
    /\ UNCHANGED <<cmd, method, size, output, inverse, prog, proc, network>>

\* main: write("output.txt") then read("output.txt") after a transform:
\* the output becomes the new input.
Reload ==
    /\ Usable
    /\ last.op \in {"compute", "reverseCompute"}
    /\ last.status = "ok"
    /\ output # NULL
    /\ input' = Ptr(Read(Deref(output)))
    /\ last' = [op |-> "reload", status |-> "ok", prev |-> "none"]
    /\ origin' = Ptr([x |-> Deref(input), op |-> last.op])
    /\ UNCHANGED <<cmd, method, size, output, inverse, prog, proc, network>>

----------------------------------------------------------------------------
(* Iterative and Recursive: one call is one step.                          *)

CanCall ==
    /\ Usable
    /\ input # NULL
    /\ Len(prog) < MaxCalls

Returned(op, res) ==
    /\ output' = res.output
    /\ last' = [op |-> op, status |-> res.status, prev |-> last.op]

IterativeComputeCall ==
    /\ method = 1
    /\ CanCall
    /\ Returned("compute", IterativeCompute(Deref(input), output))
    /\ prog' = Append(prog, FALSE)
    /\ UNCHANGED <<cmd, method, size, input, inverse, origin, proc, network>>

IterativeReverseComputeCall ==
    /\ method = 1
    /\ CanCall
    /\ Returned("reverseCompute", IterativeReverseCompute(Deref(input), output))
    /\ prog' = Append(prog, TRUE)
    /\ UNCHANGED <<cmd, method, size, input, inverse, origin, proc, network>>

RecursiveComputeCall ==
    /\ method = 2
    /\ CanCall
    /\ inverse' = FALSE
    /\ Returned("compute", RecursiveCompute(Deref(input), output))
    /\ prog' = Append(prog, FALSE)
    /\ UNCHANGED <<cmd, method, size, input, origin, proc, network>>

RecursiveReverseComputeCall ==
    /\ method = 2
    /\ CanCall
    /\ inverse' = TRUE
    /\ Returned("reverseCompute", RecursiveReverseCompute(Deref(input), output))
    /\ prog' = Append(prog, TRUE)
    /\ UNCHANGED <<cmd, method, size, input, origin, proc, network>>

----------------------------------------------------------------------------
(* Parallel::executeFFT.  A step of a rank is one blocking MPI call        *)
(* together with the local work that follows it, up to the next call that  *)
(* can block: the wait in MPI_Bcast, in MPI_Scatter, in the receive half   *)
(* of MPI_Sendrecv, and (on the root) in MPI_Gather.  Sends are buffered:  *)
(* they never block the sender.                                            *)

OpName(inv) == IF inv THEN "reverseCompute" ELSE "compute"

\* CASE 1 of the stage loop on the locals st of a rank.  A block that does
\* not fit into local_data is an access outside the vector.
LocalStage(st) ==
    IF st.local_n % st.len # 0 THEN [st EXCEPT !.pc = "ub"]
    ELSE LET data == butterfly_stage(st.local_data, st.local_n, st.len, st.inverse)
         IN  [st EXCEPT !.local_data = data, !.len = 2 * @,
                        !.snap = @ @@ (st.len :> data)]

\* The stage loop of rank r from locals st (pc = "stage") up to the point
\* where the rank blocks: in the MPI_Sendrecv of a cross-process stage
\* ("exchange"), or behind the loop in MPI_Gather ("gather").  A division by
\* zero (local_n = 0) is undefined; a partner that is no rank of the
\* communicator makes MPI_Sendrecv fail ("bad_partner").
\* Variant: the stage of width len = local_n is already taken as one that
\* spans processes.
RECURSIVE StageLoopEarly(_, _)
StageLoopEarly(r, st) ==
    IF st.pc # "stage" THEN st
    ELSE IF st.len > st.global_n THEN [st EXCEPT !.pc = "gather"]
    ELSE IF st.len < st.local_n THEN StageLoopEarly(r, LocalStage(st))
    ELSE IF st.local_n = 0 THEN [st EXCEPT !.pc = "ub"]
    ELSE IF Partner(r, GroupSize(st.len, st.local_n)) \notin Ranks
         THEN [st EXCEPT !.pc = "bad_partner"]
    ELSE [st EXCEPT !.pc = "exchange"]

RECURSIVE StageLoop(_, _)
StageLoop(r, st) ==
    IF st.pc # "stage" THEN st
    ELSE IF st.len > st.global_n THEN [st EXCEPT !.pc = "gather"]
    ELSE IF st.len <= st.local_n THEN StageLoop(r, LocalStage(st))
    ELSE IF st.local_n = 0 THEN [st EXCEPT !.pc = "ub"]
    ELSE IF Partner(r, GroupSize(st.len, st.local_n)) \notin Ranks
         THEN [st EXCEPT !.pc = "bad_partner"]
    ELSE [st EXCEPT !.pc = "exchange"]

\* Variant: a length the ranks do not divide is treated as no data at all.
ScatteredEven(st, chunk) ==
    [st EXCEPT !.pc = "stage",
               !.local_n = IF st.global_n % size = 0 THEN st.global_n \div size ELSE 0,
               !.local_data = chunk, !.len = 2, !.snap = 1 :> chunk]

\* The locals of a rank that has received its chunk from MPI_Scatter.
Scattered(st, chunk) ==
    [st EXCEPT !.pc = "stage", !.local_n = st.global_n \div size,
               !.local_data = chunk, !.len = 2, !.snap = 1 :> chunk]

\* rank r leaves executeFFT: its locals are gone.
Return(st) ==
    [Idle EXCEPT !.calls = st.calls, !.snap = st.snap, !.xchg = st.xchg,
                 !.recv = st.recv]

\* Variant: the send buffer holds the partition as MPI_Scatter delivered it.
MessageStale(st) == [data |-> st.snap[1], len |-> st.len, call |-> st.calls]

\* The message the send half of MPI_Sendrecv posts from locals st: the send
\* buffer local_data, all with tag 0.  len and call record the stage and the
\* call of the sender that posted it; no receiver reads them.
Message(st) == [data |-> st.local_data, len |-> st.len, call |-> st.calls]

\* The locals st of rank r with the MPI_Sendrecv it calls, if it calls one.
Sendrecv(r, st) ==
    IF st.pc = "exchange"
    THEN [st EXCEPT !.xchg = Append(@, [len |-> st.len,
                                        partner |-> Partner(r, GroupSize(st.len, st.local_n))])]
    ELSE st

\* The effects of rank r reaching st: the send half of MPI_Sendrecv when it
\* entered a cross-process stage, MPI_Gather's send and the return on a rank
\* other than the root, the abort of the job (MPI_ERRORS_ARE_FATAL) on an
\* invalid partner.  q2 and l are p2p and last as the step found or left them.
Reach(r, st, q2, l) ==
    /\ proc' = IF st.pc = "bad_partner"
               THEN [q \in Ranks |->
                       [(IF q = r THEN st ELSE proc[q]) EXCEPT !.pc = "aborted"]]
               ELSE IF st.pc = "gather" /\ r # 0
               THEN [proc EXCEPT ![r] = Return(st)]
               ELSE [proc EXCEPT ![r] = Sendrecv(r, st)]
    /\ p2p' = IF st.pc = "exchange"
              THEN [q2 EXCEPT ![<<r, Partner(r, GroupSize(st.len, st.local_n))>>] =
                                 Append(@, Message(st))]
              ELSE q2
    /\ gather' = IF st.pc = "gather" /\ r # 0
                 THEN [gather EXCEPT ![r] = Append(@, st.local_data)]
                 ELSE gather
    /\ last' = IF st.pc = "bad_partner" THEN [l EXCEPT !.status = "aborted"]
               ELSE IF st.pc = "ub" /\ r = 0 THEN [l EXCEPT !.status = "ub"]
               ELSE l

\* Every rank makes the same calls in the same order; the first rank to make
\* a call decides its direction.
SameCall(r, inv) ==
    IF proc[r].calls < Len(prog)
    THEN inv = prog[proc[r].calls + 1] /\ prog' = prog
    ELSE Len(prog) < MaxCalls /\ prog' = Append(prog, inv)

Entered(r, inv, n) ==
    [Idle EXCEPT !.pc = "bcast", !.inverse = inv, !.global_n = n,
                 !.calls = proc[r].calls + 1]

\* rank 0 enters executeFFT(inv): MPI_Bcast of global_n, the bit-reversal
\* permutation, "Prepare Output", MPI_Scatter, and the stage loop up to the
\* first call that blocks.
RootCall(inv) ==
    /\ method = 3
    /\ Usable
    /\ input # NULL
    /\ SameCall(0, inv)
    /\ LET global_n == Len(Deref(input))
           local_n == global_n \div size
           st == Entered(0, inv, global_n)
       IN  IF PermuteOutOfRange(global_n)
           THEN /\ Reach(0, [st EXCEPT !.pc = "ub"], p2p,
                         [op |-> OpName(inv), status |-> "running", prev |-> last.op])
                /\ UNCHANGED <<output, bcast, scatter>>
           ELSE LET permuted_input == ParallelPermuted(Deref(input), global_n)
                IN  /\ bcast' = [q \in Ranks |->
                                   IF q = 0 THEN bcast[q] ELSE Append(bcast[q], global_n)]
                    /\ output' = Ptr(ParallelAllocate(output, global_n))
                    /\ scatter' = [q \in Ranks |->
                                     IF q = 0 THEN scatter[q]
                                     ELSE Append(scatter[q], Chunk(permuted_input, q, local_n))]
                    /\ Reach(0, StageLoop(0, Scattered(st, Chunk(permuted_input, 0, local_n))),
                             p2p, [op |-> OpName(inv), status |-> "running", prev |-> last.op])
    /\ UNCHANGED <<cmd, method, size, input, inverse, origin>>

\* another rank enters executeFFT(inv) and waits in MPI_Bcast.
RankCall(r, inv) ==
    /\ method = 3
    /\ r # 0
    /\ proc[r].pc = "idle"
    /\ SameCall(r, inv)
    /\ proc' = [proc EXCEPT ![r] = Entered(r, inv, 0)]
    /\ UNCHANGED <<cmd, method, size, engine, network>>

ParallelCompute(r) == IF r = 0 THEN RootCall(FALSE) ELSE RankCall(r, FALSE)

ParallelReverseCompute(r) == IF r = 0 THEN RootCall(TRUE) ELSE RankCall(r, TRUE)

\* When the blocking call rank r waits in can return: the root's message is
\* there (MPI_Bcast, MPI_Scatter), the partner's partition is there
\* (MPI_Sendrecv), every other rank's chunk is there (MPI_Gather, root).
BcastReady(r) == r # 0 /\ proc[r].pc = "bcast" /\ bcast[r] # <<>>

ScatterReady(r) == r # 0 /\ proc[r].pc = "scatter" /\ scatter[r] # <<>>

CrossReady(r) ==
    /\ proc[r].pc = "exchange"
    /\ p2p[<<Partner(r, GroupSize(proc[r].len, proc[r].local_n)), r>>] # <<>>

GatherReady == proc[0].pc = "gather" /\ \A q \in Ranks \ {0} : gather[q] # <<>>

Ready(r) ==
    BcastReady(r) \/ ScatterReady(r) \/ CrossReady(r) \/ (r = 0 /\ GatherReady)

\* MPI_Bcast on a rank other than the root returns with the root's global_n;
\* the rank goes on to wait in MPI_Scatter.
BcastRecv(r) ==
    /\ BcastReady(r)
    /\ bcast' = [bcast EXCEPT ![r] = Tail(@)]
    /\ proc' = [proc EXCEPT ![r].pc = "scatter", ![r].global_n = Head(bcast[r])]
    /\ UNCHANGED <<cmd, method, size, engine, prog, scatter, p2p, gather>>

\* MPI_Scatter on a rank other than the root returns with its chunk; the
\* stage loop runs up to the first call that blocks.
ScatterRecv(r) ==
    /\ ScatterReady(r)
    /\ scatter' = [scatter EXCEPT ![r] = Tail(@)]
    /\ Reach(r, StageLoop(r, Scattered(proc[r], Head(scatter[r]))), p2p, last)
    /\ UNCHANGED <<cmd, method, size, input, output, inverse, origin, prog, bcast>>

\* MPI_Sendrecv returns with the partner's partition in buffer; the combine
\* loop, and the stage loop up to the next call that blocks.
CrossRecv(r) ==
    /\ CrossReady(r)
    /\ LET st == proc[r]
           partner == Partner(r, GroupSize(st.len, st.local_n))
           buffer == Head(p2p[<<partner, r>>]).data
           data == CrossCombine(st.local_data, buffer, r, st.local_n, st.len, st.inverse)
       IN  Reach(r, StageLoop(r, [st EXCEPT !.pc = "stage", !.local_data = data,
                                           !.len = 2 * @,
                                           !.snap = @ @@ (st.len :> data),
                                           !.recv = @ @@ (st.len :>
                                                            Head(p2p[<<partner, r>>]))]),
                 [p2p EXCEPT ![<<partner, r>>] = Tail(@)], last)
    /\ UNCHANGED <<cmd, method, size, input, output, inverse, origin, prog, bcast, scatter>>

\* MPI_Gather on the root returns once every chunk is there; the
\* normalization of the inverse, and the return.
GatherRoot ==
    /\ GatherReady
    /\ LET chunks == [q \in Ranks |->
                        IF q = 0 THEN proc[0].local_data ELSE Head(gather[q])]
       IN  output' = Ptr(Normalized(Gathered(Deref(output), chunks, size, proc[0].local_n),
                                    proc[0].global_n, proc[0].inverse))
    /\ gather' = [q \in Ranks |-> IF q = 0 THEN gather[q] ELSE Tail(gather[q])]
    /\ proc' = [proc EXCEPT ![0] = Return(proc[0])]
    /\ last' = [last EXCEPT !.status = "ok"]
    /\ UNCHANGED <<cmd, method, size, input, inverse, origin, prog, bcast, scatter, p2p>>

\* The steps rank r takes inside executeFFT.
RankStep(r) ==
    \/ BcastRecv(r)
    \/ ScatterRecv(r)
    \/ CrossRecv(r)
    \/ r = 0 /\ GatherRoot

----------------------------------------------------------------------------

Next ==
    \/ \E f \in Files : ReadFile(f)
    \/ \E x \in {f \in Files : Len(f) > 0 /\ ~IsPow2(Len(f))} : SetInput(x)
    \/ Reload
    \/ IterativeComputeCall
    \/ IterativeReverseComputeCall
    \/ RecursiveComputeCall
    \/ RecursiveReverseComputeCall
    \/ \E r \in Ranks : ParallelCompute(r)
    \/ \E r \in Ranks : ParallelReverseCompute(r)
    \/ \E r \in Ranks : RankStep(r)

Spec == Init /\ [][Next]_vars

----------------------------------------------------------------------------
(* main (main.cpp), from the start of the process.                         *)

\* The command lines: argc from 1 to MaxArgc; with argc = 3, argv[1] is a
\* number from 1 to MaxCode or no number at all.
CommandLines ==
    {[argc |-> a, numeric |-> TRUE, code |-> 0, method |-> 0, pc |-> "start"] :
        a \in (1..MaxArgc) \ {3}}
    \cup {[argc |-> 3, numeric |-> TRUE, code |-> c, method |-> 0, pc |-> "start"] :
        c \in 1..MaxCode}
    \cup {[argc |-> 3, numeric |-> FALSE, code |-> 0, method |-> 0, pc |-> "start"]}

\* After MPI_Init: no engine exists yet.
MainInit ==
    /\ cmd \in CommandLines
    /\ method = 0
    /\ size \in 1..MaxP
    /\ input = NULL
    /\ output = NULL
    /\ inverse = FALSE
    /\ last = [op |-> "none", status |-> "ok", prev |-> "none"]
    /\ origin = NULL
    /\ prog = <<>>
    /\ proc = [r \in Ranks |-> Idle]
    /\ bcast = [r \in Ranks |-> <<>>]
    /\ scatter = [r \in Ranks |-> <<>>]
    /\ p2p = [c \in Ranks \X Ranks |-> <<>>]
    /\ gather = [r \in Ranks |-> <<>>]

\* "Check on input arguments".  std::stoi throws on an argv[1] that is no
\* number and nothing catches it; a number outside 1..4 selects method 4;
\* with argc == 2 method stays 0; any other argc returns 1.
ParseArguments ==
    /\ cmd.pc = "start"
    /\ cmd' = IF cmd.argc = 3
              THEN IF ~cmd.numeric THEN [cmd EXCEPT !.pc = "terminate"]
                   ELSE [cmd EXCEPT !.pc = "parsed",
                                    !.method = IF cmd.code < 1 \/ cmd.code > 4
                                               THEN 4 ELSE cmd.code]
              ELSE IF cmd.argc = 2 THEN [cmd EXCEPT !.pc = "parsed"]
              ELSE [cmd EXCEPT !.pc = "exit1"]
    /\ UNCHANGED <<method, size, engine, prog, proc, network>>

\* switch (method): the engine of cases 1 to 3, the first runner of case 4.
\* No case matches method 0: fft stays nullptr and fft->read(argv[2]) with
\* argv[2] == nullptr is undefined; the process dies of a signal or of the
\* exception read throws.
SelectEngine ==
    /\ cmd.pc = "parsed"
    /\ IF cmd.method = 0
       THEN /\ \E end \in {"segfault", "terminate"} : cmd' = [cmd EXCEPT !.pc = end]
            /\ UNCHANGED method
       ELSE /\ cmd' = [cmd EXCEPT !.pc = "run"]
            /\ method' = IF cmd.method = 4 THEN 1 ELSE cmd.method
    /\ UNCHANGED <<size, engine, prog, proc, network>>

\* case 4: runners[i] is deleted after its reverseCompute() and the loop
\* goes on with the next runner, a fresh engine.
NextRunner ==
    /\ cmd.pc = "run"
    /\ cmd.method = 4
    /\ method < 3
    /\ Usable
    /\ last.op = "reverseCompute"
    /\ last.status = "ok"
    /\ method' = method + 1
    /\ input' = NULL
    /\ output' = NULL
    /\ inverse' = FALSE
    /\ last' = [op |-> "none", status |-> "ok", prev |-> "none"]
    /\ origin' = NULL
    /\ prog' = <<>>
    /\ UNCHANGED <<cmd, size, proc, network>>

MainNext ==
    \/ ParseArguments
    \/ SelectEngine
    \/ NextRunner
    \/ cmd.pc = "run" /\ Next

MainSpec == MainInit /\ [][MainNext]_vars

\* Every MPI process keeps running: as long as some rank waits in a call
\* that can return, a rank returns from its call.  This is
\* WF_vars(\E r \in Ranks : RankStep(r)), with ENABLED written out as the
\* guard of the steps.
Fairness ==
    \/ []<>(~\E r \in Ranks : Ready(r))
    \/ []<><<\E r \in Ranks : RankStep(r)>>_vars

FairSpec == Spec /\ Fairness

----------------------------------------------------------------------------
(* Properties.                                                             *)

RECURSIVE CSum(_)
CSum(terms) == IF terms = <<>> THEN Zero ELSE CAdd(Head(terms), CSum(Tail(terms)))

\* The discrete Fourier transform by its definition:
\* Y[k] = sum over n of x[n] * exp(sign * 2*pi*i * n * k / N).
DFT(x, sign) ==
    LET N == Len(x)
    IN  Vec(N, LAMBDA k :
            CSum(Vec(N, LAMBDA n : CMul(At(x, n), Polar(sign * (Turn \div N) * n * k)))))

\* The inverse transform: the conjugate sum divided by N.
InverseDFT(x) == LET Y == DFT(x, 1) IN Vec(Len(x), LAMBDA k : CDivInt(At(Y, k), Len(x)))

\* A transform call of the given kind has returned normally.
Done(op) == last.op = op /\ last.status = "ok"

\* The signal x is one the engine is specified for: a power-of-two length
\* that the ranks divide evenly.
Valid(x) == IsPow2(Len(x)) /\ (method = 3 => Len(x) % size = 0)

\* The input was reloaded from the output of a compute() on x0, and
\* reverseCompute() has run on it.
RoundTripDone ==
    /\ Done("reverseCompute")
    /\ last.prev = "reload"
    /\ origin # NULL
    /\ Deref(origin).op = "compute"
    /\ Valid(Deref(origin).x)

\* C1: round trip with normalization.  For each engine and every signal x of
\* power-of-two length N (P dividing N), compute() on x, the output loaded as
\* the new input, and reverseCompute() leave x itself in the output, element
\* by element (x[k], not N * x[k]).
RoundTrip == RoundTripDone => Deref(output) = Deref(origin).x

RoundTripWitness ==
    /\ RoundTripDone
    /\ method = 3 /\ size = 4
    /\ Deref(origin).x = Impulse(4, 1, One)

\* C2: cross-engine agreement.  When compute() has returned on an input of
\* power-of-two length (P dividing it), the output of the engine that ran,
\* Iterative, Recursive or Parallel on its P ranks, is element by element,
\* in natural order, what Iterative::compute and what Recursive::compute
\* give for that input.
CrossEngineAgreement ==
    (Done("compute") /\ Valid(Deref(input))) =>
        /\ Deref(output) = Deref(IterativeCompute(Deref(input), NULL).output)
        /\ Deref(output) = Deref(RecursiveCompute(Deref(input), NULL).output)

CrossEngineAgreementWitness ==
    /\ Done("compute")
    /\ method = 3 /\ size = 4
    /\ Deref(input) = Impulse(4, 1, One)
    /\ Deref(output) = Deref(RecursiveCompute(Impulse(4, 1, One), NULL).output)

\* C3: compute() returns the DFT of its input, Y[k] = sum of x[n] * w^(n*k)
\* with w = exp(-2*pi*i/N), for every engine and power-of-two N; the unit
\* impulse goes to the all-ones vector and the all-ones vector to [N,0,...,0].
ComputesDFT ==
    (Done("compute") /\ Valid(Deref(input))) =>
        LET x == Deref(input)
            N == Len(x)
        IN  /\ Deref(output) = DFT(x, -1)
            /\ x = Impulse(N, 0, One) => Deref(output) = Constant(N, One)
            /\ x = Constant(N, One) =>
                   Deref(output) = Impulse(N, 0, CSum(Constant(N, One)))

ComputesDFTWitness ==
    /\ Done("compute")
    /\ method = 1
    /\ Deref(input) = Constant(4, One)
    /\ Deref(output) = Impulse(4, 0, CSum(Constant(4, One)))

----------------------------------------------------------------------------
(* The distributed protocol.                                               *)

\* The stage widths a transform of length n runs through: 2, 4, ..., n.
Widths(n) == {Pow2(k) : k \in 1..(MaxLogN + 1)} \cap 2..n

\* The partitions of all ranks after the stage of width L (after the scatter
\* for L = 1), side by side in rank order.
Joined(L, local_n) ==
    Vec(size * local_n, LAMBDA g : At(proc[g \div local_n].snap[L], g % local_n))

\* Every rank is in, or back from, the same call and has done stage L of it.
AllPast(L) ==
    /\ proc[0].calls >= 1
    /\ \A r \in Ranks : proc[r].calls = proc[0].calls /\ L \in DOMAIN proc[r].snap

\* C4: partition-boundary equivalence.  After a cross-process stage of width
\* len > N/P (the smallest, len = 2 * N/P, included) the partitions of all
\* ranks side by side are what one single-process butterfly stage of width
\* len makes of the partitions as they were before the stage; the rank is on
\* the lower side exactly when its global indices lie in the lower half of
\* their len-block, and start_j + i is the offset of index i in that half.
PartitionBoundary ==
    method = 3 =>
        \A L \in Widths(2 * MaxN) :
            LET local_n == Len(proc[0].snap[1])
                group_size == GroupSize(L, local_n)
            IN  (AllPast(L) /\ L > local_n /\ IsPow2(size * local_n)) =>
                    /\ Joined(L, local_n) =
                           IterativeStage(Joined(L \div 2, local_n), size * local_n, L,
                                          prog[proc[0].calls])
                    /\ \A r \in Ranks : \A i \in 0..(local_n - 1) :
                           /\ IsLower(r, group_size) <=> (r * local_n + i) % L < L \div 2
                           /\ StartJ(r, group_size, local_n) + i =
                                  (r * local_n + i) % (L \div 2)

PartitionBoundaryWitness ==
    /\ method = 3 /\ size = 2
    /\ AllPast(4)
    /\ Len(proc[0].snap[1]) = 2
    /\ Joined(1, 2) = Impulse(4, 2, One)

\* The widest stage rank r has completed in its latest call (1: only the
\* scatter, 0: not even that), and the widest stage it has begun.
Completed(r) ==
    LET D == DOMAIN proc[r].snap
    IN  IF D = {} THEN 0 ELSE CHOOSE L \in D : \A M \in D : M <= L

Begun(r) == IF proc[r].pc = "exchange" THEN proc[r].len ELSE Completed(r)

PairOwner(r, L, local_n) ==
    IF (r * local_n) % L < L \div 2
    THEN (r * local_n + L \div 2) \div local_n
    ELSE (r * local_n - L \div 2) \div local_n

InCall(k) ==
    /\ method = 3
    /\ \A r \in Ranks : proc[r].calls = k
    /\ proc[0].pc \notin {"idle", "ub", "aborted"}
    /\ IsPow2(proc[0].global_n)
    /\ proc[0].global_n % size = 0

\* All ranks have returned from call k.
AllReturned(k) ==
    \A r \in Ranks : proc[r].calls > k \/ (proc[r].calls = k /\ proc[r].pc = "idle")

\* A rank that is through the stage loop of the call the root is in has run
\* the stages 2, 4, ..., N on a partition of the root's local_n.
StageSequence ==
    method = 3 =>
        \A r \in Ranks :
            (/\ proc[0].pc \in {"exchange", "gather"}
             /\ proc[r].calls = proc[0].calls
             /\ proc[r].pc \in {"idle", "gather"}) =>
                /\ DOMAIN proc[r].snap = {1} \cup Widths(proc[0].global_n)
                /\ Len(proc[r].snap[1]) = proc[0].local_n

\* C6: run to completion.  When all P ranks have called the same transform
\* on a power-of-two N that P divides, every rank runs the stage widths
\* 2, 4, ..., N with the same local/cross-process split, and every rank
\* eventually gets through the broadcast, the scatter, every exchange and
\* the gather and returns: no rank stays blocked forever.
RunsToCompletion ==
    /\ []StageSequence
    /\ \A k \in 1..MaxCalls : InCall(k) ~> AllReturned(k)

RunsToCompletionWitness ==
    /\ method = 3 /\ size = 4
    /\ proc[0].calls = 1
    /\ AllReturned(1)
    /\ DOMAIN proc[3].snap = {1, 2, 4}

----------------------------------------------------------------------------
(* The contract of compute() and reverseCompute().                         *)

TransformOps == {"compute", "reverseCompute"}

\* C7: non-power-of-two rejection.  compute() and reverseCompute() of the
\* Iterative and of the Recursive engine, called on an input whose length is
\* not a power of two, fail with an invalid-size error.
RejectsNonPowerOfTwo ==
    (/\ method \in {1, 2}
     /\ last.op \in TransformOps
     /\ Len(Deref(input)) > 0
     /\ ~IsPow2(Len(Deref(input)))) => last.status = "invalid_argument"

\* C8: empty input.  For every engine, compute() and reverseCompute() on an
\* input of length 0 end without error and leave an empty output (no
\* output vector counts as empty).
EmptyInputSucceeds ==
    (/\ last.op \in TransformOps
     /\ last.status # "running"
     /\ Len(Deref(input)) = 0) =>
        /\ last.status = "ok"
        /\ output = NULL \/ Len(Deref(output)) = 0

\* C9: output-length postcondition.  Whenever compute() or reverseCompute()
\* has returned without error, the output (on rank 0) has exactly the length
\* of the loaded input (no output vector counts as length 0).
OutputLengthPostcondition ==
    (last.op \in TransformOps /\ last.status = "ok") =>
        (IF output = NULL THEN 0 ELSE Len(Deref(output))) = Len(Deref(input))

\* C10: reverseCompute() transforms the loaded input.  No step of compute()
\* or reverseCompute() changes the input, and when reverseCompute() has
\* returned the output is the inverse DFT of the input that is loaded, also
\* right after a compute() with no reload in between.
InverseOfLoadedInput ==
    /\ [][last'.op \in TransformOps => input' = input]_vars
    /\ []((Done("reverseCompute") /\ Valid(Deref(input))) =>
              Deref(output) = InverseDFT(Deref(input)))

InverseOfLoadedInputWitness ==
    /\ Done("reverseCompute")
    /\ last.prev = "compute"
    /\ method = 3 /\ size = 2
    /\ Deref(input) = Impulse(4, 1, One)
    /\ Deref(output) = InverseDFT(Impulse(4, 1, One))

----------------------------------------------------------------------------
(* What a call leaves behind.                                              *)

\* The output a freshly constructed engine (output = nullptr, inverse =
\* false) leaves after the call op on the input x.  For the Parallel engine
\* and a valid x this is the transform itself.
FreshOutput(op, x) ==
    IF method = 1
    THEN (IF op = "compute" THEN IterativeCompute(x, NULL)
          ELSE IterativeReverseCompute(x, NULL)).output
    ELSE IF method = 2
    THEN (IF op = "compute" THEN RecursiveCompute(x, NULL)
          ELSE RecursiveReverseCompute(x, NULL)).output
    ELSE Ptr(IF op = "compute" THEN DFT(x, -1) ELSE InverseDFT(x))

\* C11: history independence.  Whenever compute() or reverseCompute() has
\* returned, the output is the one a fresh engine of the same kind leaves
\* for the loaded input and the same direction, whatever calls came before
\* (for the Parallel engine: on inputs whose length P divides).
HistoryIndependence ==
    (/\ last.op \in TransformOps
     /\ last.status = "ok"
     /\ method = 3 => Valid(Deref(input))) =>
        output = FreshOutput(last.op, Deref(input))

\* C12: uneven partitioning is unchecked.  When P does not divide N the
\* call never ends with an invalid-argument error, and every rank that has
\* its partition goes on with local_n = floor(N / P) elements.
UnevenUnchecked ==
    method = 3 =>
        /\ last.status # "invalid_argument"
        /\ \A r \in Ranks :
               (/\ proc[r].pc # "idle"
                /\ 1 \in DOMAIN proc[r].snap
                /\ proc[r].global_n % size # 0) =>
                   /\ proc[r].local_n = proc[r].global_n \div size
                   /\ Len(proc[r].snap[1]) = proc[r].global_n \div size

\* Three ranks, N = 4: rank 1 waits in its first exchange with one element.
UnevenUncheckedWitness ==
    /\ method = 3 /\ size = 3
    /\ proc[1].pc = "exchange"
    /\ proc[1].global_n = 4
    /\ proc[1].local_n = 1

----------------------------------------------------------------------------
(* main's arguments.                                                       *)

\* The method code or the input path is absent, or the method code is no
\* number from 1 to 4.
BadArguments == cmd.argc # 3 \/ ~cmd.numeric \/ cmd.code \notin 1..4

\* C13: argument handling.  With missing or invalid arguments the program
\* gets no further than its argument check, where it exits with code 1: it
\* selects no engine, starts no transform and ends in no other way.
ExitsOnBadArguments ==
    BadArguments =>
        /\ cmd.pc \in {"start", "parsed", "exit1"}
        /\ last.op = "none"

----------------------------------------------------------------------------
(* The exchanges of the stage loop.                                        *)

\* Rank r is inside a call on a power-of-two length the ranks divide, and
\* has its partition.
InValidCall(r) ==
    /\ method = 3
    /\ proc[r].pc # "idle"
    /\ 1 \in DOMAIN proc[r].snap
    /\ IsPow2(proc[r].global_n)
    /\ proc[r].global_n % size = 0

\* C14: hypercube partner validity.  For N a power of two, P dividing N and
\* every stage width len > N/P: N/P is not 0, group_size is a power of two
\* from 1 to P/2, the partner is another rank of the communicator whose
\* partner is the rank itself, and exactly one of the two is lower.
PartnerValidity ==
    \A r \in Ranks :
        InValidCall(r) =>
            \A len \in Widths(proc[r].global_n) :
                len > proc[r].local_n =>
                    LET group_size == GroupSize(len, proc[r].local_n)
                        partner == Partner(r, group_size)
                    IN  /\ proc[r].local_n > 0
                        /\ IsPow2(group_size)
                        /\ 1 <= group_size /\ 2 * group_size <= size
                        /\ partner \in Ranks
                        /\ partner # r
                        /\ Partner(partner, group_size) = r
                        /\ IsLower(r, group_size) # IsLower(partner, group_size)

\* Rank 2 of 4 in the last stage of N = 4: group_size = 2 = P/2, partner 0.
PartnerValidityWitness ==
    /\ size = 4
    /\ InValidCall(2)
    /\ proc[2].pc = "exchange"
    /\ proc[2].len = 4
    /\ proc[2].local_n = 1
    /\ Partner(2, GroupSize(4, 1)) = 0

\* Rank r has the partition of a call on a power-of-two length the ranks
\* divide (it may have returned from the call since).
ValidPartition(r) ==
    /\ 1 \in DOMAIN proc[r].snap
    /\ IsPow2(size * Len(proc[r].snap[1]))

ExchangeMatching ==
    method = 3 =>
        /\ \A r \in Ranks : \A L \in DOMAIN proc[r].recv :
              LET m == proc[r].recv[L]
                  q == Partner(r, GroupSize(L, Len(proc[r].snap[1])))
              IN  /\ m.len = L
                  /\ m.call = proc[r].calls
                  /\ q \in Ranks
                  /\ proc[q].calls = proc[r].calls =>
                        /\ (L \div 2) \in DOMAIN proc[q].snap
                        /\ m.data = proc[q].snap[L \div 2]
        /\ \A q, r \in Ranks : \A i \in 1..Len(p2p[<<q, r>>]) :
              LET m == p2p[<<q, r>>][i]
              IN  m.call = proc[q].calls =>
                    /\ (m.len \div 2) \in DOMAIN proc[q].snap
                    /\ m.data = proc[q].snap[m.len \div 2]

\* In a second call on two ranks with four samples, rank 1 has received the
\* partition rank 0 held after the local stage of that call.
ExchangeMatchingWitness ==
    /\ method = 3
    /\ size = 2
    /\ proc[0].calls = 2
    /\ proc[1].calls = 2
    /\ 4 \in DOMAIN proc[1].recv
    /\ proc[1].recv[4].call = 2
    /\ proc[1].recv[4].data = proc[0].snap[2]
    /\ proc[0].snap[2] # proc[0].snap[1]

\* The two loops on the lengths N = 2^0 .. 2^MaxBits: both send i to the
\* index whose bit b is bit log2(N) - 1 - b of i, inside [0, N), and no two
\* source indices go to the same slot.
BitReversalMaps ==
    \A k \in 0..MaxBits :
        LET N == Pow2(k)
            log_n == Log2Ceil(0, N)
            it(i) == IterativeBitReverse(i, log_n, 0)
            par(i) == ParallelBitReverse(0, i, log_n, 0)
        IN  /\ log_n = k
            /\ \A i \in 0..(N - 1) :
                  /\ it(i) \in 0..(N - 1)
                  /\ \A b \in 0..(k - 1) : BitSet(it(i), b) = BitSet(i, k - 1 - b)
                  /\ par(i) = it(i)
            /\ \A i, j \in 0..(N - 1) : i # j => it(i) # it(j) /\ par(i) # par(j)

\* C17: bit-reversal permutation.  For every power-of-two N the map from i to
\* the reverse of its log2(N) bits is a bijection on [0, N), the loop of the
\* Iterative engine and the loop of rank 0 of the distributed engine compute
\* that same map, and the partitions rank 0 scatters hold input[i] at the
\* slot the Iterative engine's loop sends i to.
BitReversalPermutation ==
    /\ BitReversalMaps
    /\ method = 3 /\ last.status = "running" /\ input # NULL /\ AllPast(1)
          /\ Valid(Deref(input)) =>
          LET N == Len(Deref(input))
              scattered == Joined(1, N \div size)
          IN  \A i \in 0..(N - 1) :
                At(scattered, IterativeBitReverse(i, Log2Ceil(0, N), 0)) = At(Deref(input), i)

\* Four samples with the impulse at index 1 are scattered over two ranks:
\* the impulse is at index 2, the first slot of rank 1.
BitReversalPermutationWitness ==
    /\ method = 3
    /\ size = 2
    /\ last.status = "running"
    /\ input # NULL
    /\ AllPast(1)
    /\ Deref(input) = Impulse(4, 1, One)
    /\ proc[1].snap[1] = <<One, Zero>>
    /\ proc[0].snap[1] = <<Zero, Zero>>

\* The numbers of blocks butterfly_stage is evaluated for on its own: few,
\* and around the threshold between its two branches.
BlockCounts ==
    {1, 2, 3, ButterflyThreshold - 1, ButterflyThreshold, ButterflyThreshold + 1}

StageLens == {Pow2(k) : k \in 1..MaxLogLen}

\* No two distinct iterations of butterfly_stage(data, local_n, len, _) touch
\* the same element, and together they touch data[0..local_n-1] and nothing
\* else.
StageRaceFree(local_n, len) ==
    LET its == Iterations(local_n, len)
    IN  /\ \A a, b \in its :
              a # b => IterationAccess(a, len) \cap IterationAccess(b, len) = {}
        /\ UNION {IterationAccess(a, len) : a \in its} = 0..(local_n - 1)

CombineRaceFree(local_n) ==
    LET its == CombineIterations(local_n)
    IN  /\ \A a, b \in its : a # b => CombineAccess(a) \cap CombineAccess(b) = {}
        /\ UNION {CombineAccess(a) : a \in its} = 0..(local_n - 1)

\* Both branches of butterfly_stage and the combine loop, for the widths up
\* to MaxLen and the block counts above.
LoopsRaceFree ==
    \A len \in StageLens : \A k \in BlockCounts :
        /\ StageRaceFree(k * len, len)
        /\ CombineRaceFree(k * len)
        /\ k >= ButterflyThreshold =>
              \A a \in Iterations(k * len, len) :
                  Len(a) = 1 /\ IterationAccess(a, len) = a[1]..(a[1] + len - 1)
        /\ k < ButterflyThreshold =>
              \A a \in Iterations(k * len, len) :
                  Len(a) = 2 /\ IterationAccess(a, len) = {a[1] + a[2], a[1] + a[2] + len \div 2}

\* C18: thread-level race freedom.  In every thread-parallel loop of the
\* distributed engine two distinct iterations never touch the same element of
\* the data: the blocks of the block loop are disjoint, a pair (i, j) of the
\* collapsed loop touches only i+j and i+j+len/2, iteration i of the combine
\* loop touches only index i; this holds for every stage a rank has run.
RaceFreedom ==
    /\ LoopsRaceFree
    /\ method = 3 =>
          \A r \in Ranks : \A L \in DOMAIN proc[r].snap :
              LET local_n == Len(proc[r].snap[1])
              IN  L > 1 =>
                    IF L <= local_n THEN StageRaceFree(local_n, L)
                    ELSE CombineRaceFree(local_n)

\* Rank 1 of two, with two samples of four: it has run butterfly_stage of
\* width 2 and the combine loop of width 4 with two iterations.
RaceFreedomWitness ==
    /\ method = 3
    /\ size = 2
    /\ DOMAIN proc[1].snap = {1, 2, 4}
    /\ Len(proc[1].snap[1]) = 2
    /\ Cardinality(CombineIterations(2)) = 2
    /\ proc[1].snap[4] # proc[1].snap[2]

\* Data of n elements for a stage on its own: the elements of a block differ,
\* and so do neighbouring blocks.
StageData(n) ==
    [p \in 1..n |->
        IF ((p - 1) \div MaxLen) % 2 = 0
        THEN Polar(((p - 1) % MaxLen) * (Turn \div MaxLen))
        ELSE CAdd(One, Polar(((p - 1) % 4) * (Turn \div 4)))]

\* For the widths up to MaxLen, both directions and every offset j < len/2:
\* the w of the first branch (local_n/len >= 32) and the w of the second
\* are both the j-th power of wlen; and on data of 1, 2, 3, 31, 32, 33
\* blocks butterfly_stage leaves what one pass of width len of the Iterative
\* engine's butterfly loop leaves.
BranchesAgree ==
    \A len \in StageLens : \A inv \in BOOLEAN :
        /\ \A j \in 0..(len \div 2 - 1) :
              /\ ButterflyTwiddle(ButterflyThreshold * len, len, inv, j)
                    = ButterflyTwiddle(len, len, inv, j)
              /\ ButterflyTwiddle(len, len, inv, j) = Twiddle(Polar(Angle(len, inv)), j)
        /\ \A k \in BlockCounts :
              butterfly_stage(StageData(k * len), k * len, len, inv)
                  = IterativeStage(StageData(k * len), k * len, len, inv)

\* C19: local-stage equivalence.  Both branches of butterfly_stage apply the
\* twiddle of exponent j to the pair (data[i+j], data[i+j+len/2]) and leave
\* the data one stage of width len of the Iterative engine's butterfly loop
\* leaves, in both directions; every local stage a rank has run left that
\* data.  (BranchesAgree depends on no variable: it is evaluated once per
\* engine, before its input is loaded.)
LocalStageEquivalence ==
    /\ input = NULL => BranchesAgree
    /\ method = 3 =>
          \A r \in Ranks : \A L \in DOMAIN proc[r].snap :
              LET local_n == Len(proc[r].snap[1])
              IN  1 < L /\ L <= local_n =>
                    proc[r].snap[L] = IterativeStage(proc[r].snap[L \div 2], local_n, L,
                                                     prog[proc[r].calls])

\* One rank with four samples has run the local stage of width 4 of an
\* inverse transform, and the stage changed the data.
LocalStageEquivalenceWitness ==
    /\ method = 3
    /\ size = 1
    /\ proc[0].calls >= 1
    /\ prog[proc[0].calls]
    /\ DOMAIN proc[0].snap = {1, 2, 4}
    /\ proc[0].snap[4] # proc[0].snap[2]
    /\ proc[0].snap[4] = butterfly_stage(proc[0].snap[2], 4, 4, TRUE)

====
